---------------------------- MODULE Spec2Model ----------------------------
(***************************************************************************)
(* A model of etl.py, the immigration ETL job: main() as a straight-line   *)
(* state machine over its DataFrames, with the label-file parser, the      *)
(* cleaners and the two table builders as operators computed the way the   *)
(* code computes them.                                                     *)
(*                                                                         *)
(* Text is modelled by TLA+ strings (TLC evaluates Len, SubSeq and \o on   *)
(* them), a DataFrame by the sequence of its rows, a row by a record of    *)
(* column values, and a column value by a tagged record that is a Python   *)
(* None / SQL NULL, a number or a string.                                  *)
(***************************************************************************)
EXTENDS Integers, Sequences, FiniteSets, TLC

VARIABLES
    pc,                          \* position of main()
    file_data,                   \* text of the SAS labels description file
    input_immigration,           \* rows of the i94 immigration data on disk
    input_demographics,          \* rows of us-cities-demographics.csv
    built,                       \* names of the DataFrames bound so far
    immigration_df, us_demographics_df,
    countries_df, ports_df, states_df, travel_modes_df, visa_categories_df,
    cleaned_immigration_df, cleaned_us_demographics_df, cleaned_ports_df,
    cleaned_countries_df, cleaned_states_df,
    immigration_fact_table, city_demographics_table,
    recleaned_df,                \* clean_immigration_data applied a second time
    written                      \* parquet outputs written so far, in order

vars == <<pc, file_data, input_immigration, input_demographics, built,
          immigration_df, us_demographics_df,
          countries_df, ports_df, states_df, travel_modes_df, visa_categories_df,
          cleaned_immigration_df, cleaned_us_demographics_df, cleaned_ports_df,
          cleaned_countries_df, cleaned_states_df,
          immigration_fact_table, city_demographics_table, recleaned_df, written>>

---------------------------------------------------------------------------
(* Column values: Python None / SQL NULL, a number, a string.              *)

None == [t |-> "null", n |-> 0, s |-> ""]
Num(k) == [t |-> "num", n |-> k, s |-> ""]
Str(x) == [t |-> "str", n |-> 0, s |-> x]
IsNull(v) == v.t = "null"

\* Python truthiness of a value: None, 0 and '' are false.
Truthy(v) == (v.t = "num" /\ v.n # 0) \/ (v.t = "str" /\ v.s # "")

\* SQL equality in a join condition or filter: never true on a NULL side.
SqlEq(a, b) == ~IsNull(a) /\ ~IsNull(b) /\ a = b

Range(f) == {f[i] : i \in DOMAIN f}

---------------------------------------------------------------------------
(* Python string methods.                                                  *)

Char(s, i) == SubSeq(s, i, i)

\* The characters str.strip() removes.
Whitespace == {" ", "\t", "\n", "\r", "\f"}

\* The positions at or after p where sub occurs in s.
Occurrences(s, sub, p) ==
    {q \in p .. (Len(s) - Len(sub) + 1) : SubSeq(s, q, q + Len(sub) - 1) = sub}

\* s.find(sub, p), 1-based: the first occurrence at or after p, 0 when none.
Find(s, sub, p) ==
    LET occ == Occurrences(s, sub, p)
    IN  IF occ = {} THEN 0 ELSE CHOOSE q \in occ : \A o \in occ : q <= o

\* s.index(sub), 1-based; 0 stands for the ValueError of a missing substring.
Index(s, sub) == Find(s, sub, 1)

RECURSIVE SplitFrom(_, _, _)
SplitFrom(s, sep, start) ==
    LET q == Find(s, sep, start)
    IN  IF q = 0 THEN <<SubSeq(s, start, Len(s))>>
        ELSE <<SubSeq(s, start, q - 1)>> \o SplitFrom(s, sep, q + 1)

\* s.split(sep) for a one-character separator.
Split(s, sep) == SplitFrom(s, sep, 1)

RECURSIVE LStrip(_, _)
LStrip(s, chars) ==
    IF Len(s) > 0 /\ Char(s, 1) \in chars THEN LStrip(Tail(s), chars) ELSE s

RECURSIVE RStrip(_, _)
RStrip(s, chars) ==
    IF Len(s) > 0 /\ Char(s, Len(s)) \in chars
    THEN RStrip(SubSeq(s, 1, Len(s) - 1), chars) ELSE s

\* s.strip(chars)
StripChars(s, chars) == RStrip(LStrip(s, chars), chars)

\* s.strip()
Strip(s) == StripChars(s, Whitespace)

---------------------------------------------------------------------------
(* get_data_from_sas_labels_file and the five get_i94_* readers.           *)

\* The loop body with "len(parts) < 2" for "len(parts) != 2": a line with
\* more than one '=' gives a pair of its first two parts.
PairsOfLineWithTwoOrMore(line) ==
    LET parts == Split(line, "=")
    IN  IF Len(parts) < 2 THEN <<>>
        ELSE <<<<StripChars(Strip(parts[1]), {"'"}),
                 StripChars(Strip(parts[2]), {"'"})>>>>

\* The loop body: a line that splits on '=' into exactly two parts gives one
\* (code, value) pair, any other line gives none.
PairsOfLine(line) ==
    LET parts == Split(line, "=")
    IN  IF Len(parts) # 2 THEN <<>>
        ELSE <<<<StripChars(Strip(parts[1]), {"'"}),
                 StripChars(Strip(parts[2]), {"'"})>>>>

RECURSIVE PairsOfLines(_)
PairsOfLines(lines) ==
    IF lines = <<>> THEN <<>>
    ELSE PairsOfLine(Head(lines)) \o PairsOfLines(Tail(lines))

\* file_data.index(label_name): where the block starts, 0 when it raises.
LabelStart(text, label_name) == Index(text, label_name)

\* The parser with str.find in place of str.index: a missing name or
\* terminator gives a block that runs from or to the end of the text.
get_data_with_find(text, label_name) ==
    LET i == LabelStart(text, label_name)
        from_label == SubSeq(text, IF i = 0 THEN 1 ELSE i, Len(text))
        j == Index(from_label, ";")
        label_data == SubSeq(from_label, 1, IF j = 0 THEN Len(from_label) ELSE j - 1)
    IN  [error |-> "", pairs |-> PairsOfLines(Split(label_data, "\n"))]

\* error is "ValueError" when either str.index call raises, and "" otherwise.
get_data_from_sas_labels_file(text, label_name) ==
    LET i == LabelStart(text, label_name)
        from_label == SubSeq(text, i, Len(text))
        j == Index(from_label, ";")
        label_data == SubSeq(from_label, 1, j - 1)
    IN  IF i = 0 \/ j = 0
        THEN [error |-> "ValueError", pairs |-> <<>>]
        ELSE [error |-> "", pairs |-> PairsOfLines(Split(label_data, "\n"))]

\* spark.createDataFrame(data = pairs, schema = two string columns)
CountryRow(p) == [country_code |-> Str(p[1]), country_name |-> Str(p[2])]
PortRow(p) == [port_code |-> Str(p[1]), port_name |-> Str(p[2])]
StateRow(p) == [state_code |-> Str(p[1]), state_name |-> Str(p[2])]
ModeRow(p) == [mode_id |-> Str(p[1]), mode_name |-> Str(p[2])]
VisaRow(p) == [visa_category_id |-> Str(p[1]), visa_category |-> Str(p[2])]

get_i94_countries(text) ==
    LET r == get_data_from_sas_labels_file(text, "I94RES")
    IN  [error |-> r.error, df |-> [i \in DOMAIN r.pairs |-> CountryRow(r.pairs[i])]]

get_i94_ports(text) ==
    LET r == get_data_from_sas_labels_file(text, "I94PORT")
    IN  [error |-> r.error, df |-> [i \in DOMAIN r.pairs |-> PortRow(r.pairs[i])]]

get_i94_states(text) ==
    LET r == get_data_from_sas_labels_file(text, "I94ADDR")
    IN  [error |-> r.error, df |-> [i \in DOMAIN r.pairs |-> StateRow(r.pairs[i])]]

get_i94_travel_modes(text) ==
    LET r == get_data_from_sas_labels_file(text, "I94MODE")
    IN  [error |-> r.error, df |-> [i \in DOMAIN r.pairs |-> ModeRow(r.pairs[i])]]

get_i94_visas(text) ==
    LET r == get_data_from_sas_labels_file(text, "I94VISA")
    IN  [error |-> r.error, df |-> [i \in DOMAIN r.pairs |-> VisaRow(r.pairs[i])]]

---------------------------------------------------------------------------
(* DataFrame operations.                                                   *)

RECURSIVE Concat(_)
Concat(seqs) == IF seqs = <<>> THEN <<>> ELSE Head(seqs) \o Concat(Tail(seqs))

\* The rows f gives for each row of df, in order.
FlatMap(f(_), df) == Concat([i \in DOMAIN df |-> f(df[i])])

\* df.filter(keep)
Filter(keep(_), df) == FlatMap(LAMBDA r : IF keep(r) THEN <<r>> ELSE <<>>, df)

Count(r, df) == Cardinality({i \in DOMAIN df : df[i] = r})

\* df.dropDuplicates(): one row of each group of equal rows.
RECURSIVE dropDuplicates(_)
dropDuplicates(df) ==
    IF df = <<>> THEN <<>>
    ELSE LET init == dropDuplicates(SubSeq(df, 1, Len(df) - 1))
             last == df[Len(df)]
         IN  IF last \in Range(init) THEN init ELSE Append(init, last)

\* df.dropna(): drops the rows with a null in any column.
dropna(df) == Filter(LAMBDA r : \A c \in DOMAIN r : ~IsNull(r[c]), df)

---------------------------------------------------------------------------
(* datetime.date arithmetic and formatting.                                *)

IsLeap(y) == y % 4 = 0 /\ (y % 100 # 0 \/ y % 400 = 0)
DaysInYear(y) == IF IsLeap(y) THEN 366 ELSE 365
DaysInMonth(y, m) ==
    IF m = 2 THEN (IF IsLeap(y) THEN 29 ELSE 28)
    ELSE IF m \in {4, 6, 9, 11} THEN 30 ELSE 31

RECURSIVE MonthOf(_, _, _)
MonthOf(y, m, k) ==
    IF k >= DaysInMonth(y, m) THEN MonthOf(y, m + 1, k - DaysInMonth(y, m))
    ELSE [year |-> y, month |-> m, day |-> k + 1]

\* The date k days after January 1st of year y.
RECURSIVE DateOf(_, _)
DateOf(y, k) ==
    IF k < 0 THEN DateOf(y - 1, k + DaysInYear(y - 1))
    ELSE IF k >= DaysInYear(y) THEN DateOf(y + 1, k - DaysInYear(y))
    ELSE MonthOf(y, 1, k)

Digit(k) == SubSeq("0123456789", k + 1, k + 1)

RECURSIVE NatStr(_)
NatStr(k) == IF k < 10 THEN Digit(k) ELSE NatStr(k \div 10) \o Digit(k % 10)

RECURSIVE ZeroPad(_, _)
ZeroPad(x, width) == IF Len(x) >= width THEN x ELSE ZeroPad("0" \o x, width)

\* date.isoformat(): YYYY-MM-DD
isoformat(d) ==
    ZeroPad(NatStr(d.year), 4) \o "-" \o ZeroPad(NatStr(d.month), 2)
        \o "-" \o ZeroPad(NatStr(d.day), 2)

---------------------------------------------------------------------------
(* clean_immigration_data                                                  *)

\* What a udf declared with the default return type (StringType) stores for
\* the Python value its function returned: None as NULL, a str as it is, a
\* number (a double, as the SAS numeric columns are) by its string form.
UdfString(v) ==
    IF v.t = "num" THEN Str(NatStr(v.n) \o ".0") ELSE v

\* The date udf with "if x is not None" for "if x": offset 0 gives the epoch.
get_isoformat_date_of_zero(x) ==
    IF IsNull(x) THEN [error |-> "", value |-> None]
    ELSE IF x.t # "num" THEN [error |-> "TypeError", value |-> None]
    ELSE [error |-> "", value |-> Str(isoformat(DateOf(1960, x.n)))]

\* lambda x: (datetime(1960, 1, 1).date() + timedelta(x)).isoformat() if x else None
\* timedelta(x) raises TypeError when x is a str.
get_isoformat_date(x) ==
    IF ~Truthy(x) THEN [error |-> "", value |-> None]
    ELSE IF x.t # "num" THEN [error |-> "TypeError", value |-> None]
    ELSE [error |-> "", value |-> UdfString(Str(isoformat(DateOf(1960, x.n))))]

\* The birth-year udf with a guard that lets a str pass unchanged.
get_valid_birth_year_or_str(yr) ==
    IF ~Truthy(yr) THEN [error |-> "", value |-> None]
    ELSE IF yr.t # "num" THEN [error |-> "", value |-> yr]
    ELSE [error |-> "",
          value |-> IF 1900 <= yr.n /\ yr.n <= 2016 THEN UdfString(yr) ELSE None]

\* lambda yr: yr if (yr and 1900 <= yr <= 2016) else None
\* 1900 <= yr raises TypeError when yr is a str.
get_valid_birth_year(yr) ==
    IF ~Truthy(yr) THEN [error |-> "", value |-> None]
    ELSE IF yr.t # "num" THEN [error |-> "TypeError", value |-> None]
    ELSE [error |-> "",
          value |-> IF 1900 <= yr.n /\ yr.n <= 2016 THEN UdfString(yr) ELSE None]

\* The three withColumn calls on one row.
CleanImmigrationRow(r) ==
    [r EXCEPT !.arrdate = get_isoformat_date(r.arrdate).value,
              !.depdate = get_isoformat_date(r.depdate).value,
              !.biryear = get_valid_birth_year(r.biryear).value]

RowRaises(r) ==
    \/ get_isoformat_date(r.arrdate).error # ""
    \/ get_isoformat_date(r.depdate).error # ""
    \/ get_valid_birth_year(r.biryear).error # ""

\* error is "TypeError" when a udf raises on some row (the job fails when the
\* DataFrame is evaluated), and "" otherwise.
clean_immigration_data(df) ==
    IF \E i \in DOMAIN df : RowRaises(df[i])
    THEN [error |-> "TypeError", df |-> <<>>]
    ELSE [error |-> "",
          df |-> dropDuplicates([i \in DOMAIN df |-> CleanImmigrationRow(df[i])])]

---------------------------------------------------------------------------
(* The other cleaners.                                                     *)

\* The demographics cleaner without its duplicate elimination.
clean_us_demographics_keep_duplicates(df) == dropna(df)

clean_us_demographics_data(df) == dropDuplicates(dropna(df))

\* lambda port_name: port_name.split(',')[0].strip() if port_name else None
get_city_name(port_name) ==
    IF Truthy(port_name)
    THEN UdfString(Str(Strip(Split(port_name.s, ",")[1])))
    ELSE None

\* The state udf with split(',')[-1] for split(',')[1].
get_state_code_after_last_comma(port_name) ==
    IF Truthy(port_name) /\ Len(Split(port_name.s, ",")) > 1
    THEN UdfString(Str(Strip(Split(port_name.s, ",")[Len(Split(port_name.s, ","))])))
    ELSE None

\* lambda port_name: port_name.split(',')[1].strip()
\*                   if (port_name and len(port_name.split(',')) > 1) else None
get_state_code(port_name) ==
    IF Truthy(port_name) /\ Len(Split(port_name.s, ",")) > 1
    THEN UdfString(Str(Strip(Split(port_name.s, ",")[2])))
    ELSE None

\* withColumn('city'), withColumn('state_code'), drop('port_name')
PortColumns(r) ==
    [port_code |-> r.port_code,
     city |-> get_city_name(r.port_name),
     state_code |-> get_state_code(r.port_name)]

clean_ports_data(df) ==
    dropDuplicates(dropna([i \in DOMAIN df |-> PortColumns(df[i])]))

\* What '.' does not match in a Java regular expression (of the characters
\* the model's texts are made of).
LineTerminators == {"\n", "\r"}

HasAt(s, p, lit) ==
    p + Len(lit) - 1 <= Len(s) /\ SubSeq(s, p, p + Len(lit) - 1) = lit

\* Whether '^No Country.*|INVALID.*|Collapsed.*' matches at position p: the
\* anchor belongs to the first alternative only.
PatternMatchesAt(s, p) ==
    \/ p = 1 /\ HasAt(s, p, "No Country")
    \/ HasAt(s, p, "INVALID")
    \/ HasAt(s, p, "Collapsed")

\* Where the greedy '.*' of a match begun at p stops.
RECURSIVE DotStarEnd(_, _)
DotStarEnd(s, p) ==
    IF p > Len(s) \/ Char(s, p) \in LineTerminators THEN p ELSE DotStarEnd(s, p + 1)

\* Java's replaceAll: each match, found left to right, becomes 'NA'.
RECURSIVE ReplaceFrom(_, _)
ReplaceFrom(s, p) ==
    IF p > Len(s) THEN ""
    ELSE IF PatternMatchesAt(s, p) THEN "NA" \o ReplaceFrom(s, DotStarEnd(s, p))
    ELSE Char(s, p) \o ReplaceFrom(s, p + 1)

\* regexp_replace('country_name', '^No Country.*|INVALID.*|Collapsed.*', 'NA')
regexp_replace(v) == IF IsNull(v) THEN None ELSE Str(ReplaceFrom(v.s, 1))

clean_countries_data(df) ==
    [i \in DOMAIN df |-> [df[i] EXCEPT !.country_name = regexp_replace(@)]]

\* The states cleaner without its filter.
clean_states_keep_all(df) == df

\* filter('state_code != "99"'): a NULL state_code does not pass either.
clean_states_data(df) ==
    Filter(LAMBDA r : ~IsNull(r.state_code) /\ r.state_code # Str("99"), df)

---------------------------------------------------------------------------
(* create_immigration_fact_table                                           *)

\* LEFT JOIN df ON df.col = key, as the values of df.col in the joined rows:
\* one per matching row of df, or a single NULL when none matches.
LeftJoin(key, df, col) ==
    LET matches == Filter(LAMBDA r : SqlEq(r[col], key), df)
    IN  IF matches = <<>> THEN <<None>>
        ELSE [i \in DOMAIN matches |-> matches[i][col]]

\* The SELECT list.
FactRow(sid, sc, sp, sus, svc, stm) ==
    [cicid |-> sid.cicid,
     entry_year |-> sid.i94yr,
     entry_month |-> sid.i94mon,
     origin_country_code |-> sc,
     port_code |-> sp,
     arrival_date |-> sid.arrdate,
     travel_mode_code |-> stm,
     us_state_code |-> sus,
     departure_date |-> sid.depdate,
     age |-> sid.i94bir,
     visa_category_code |-> svc,
     occupation |-> sid.occup,
     gender |-> sid.gender,
     birth_year |-> sid.biryear,
     entry_date |-> sid.dtaddto,
     airline |-> sid.airline,
     admission_number |-> sid.admnum,
     flight_number |-> sid.fltno,
     visa_type |-> sid.visatype]

\* The WHERE clause on one joined row.
FactWhere(sc, sp, sus, svc, stm) ==
    ~IsNull(sc) /\ ~IsNull(sp) /\ ~IsNull(sus) /\ ~IsNull(stm) /\ ~IsNull(svc)

\* The joined rows of one immigration row that pass the WHERE clause.
FactRowsOf(sid, countries, us_states, ports, visa_categories, travel_modes) ==
    FlatMap(LAMBDA sc :
      FlatMap(LAMBDA sp :
        FlatMap(LAMBDA sus :
          FlatMap(LAMBDA svc :
            FlatMap(LAMBDA stm :
                IF FactWhere(sc, sp, sus, svc, stm)
                THEN <<FactRow(sid, sc, sp, sus, svc, stm)>> ELSE <<>>,
              LeftJoin(sid.i94mode, travel_modes, "mode_id")),
            LeftJoin(sid.i94visa, visa_categories, "visa_category_id")),
          LeftJoin(sid.i94addr, us_states, "state_code")),
        LeftJoin(sid.i94port, ports, "port_code")),
      LeftJoin(sid.i94res, countries, "country_code"))

create_immigration_fact_table(immigration, countries, us_states, ports, visa_categories, travel_modes) ==
    FlatMap(LAMBDA sid : FactRowsOf(sid, countries, us_states, ports,
                                    visa_categories, travel_modes),
            immigration)

---------------------------------------------------------------------------
(* create_city_demographics_dim_table                                      *)

\* SUM(col) over the rows of df: NULL values are skipped, and the sum of no
\* value is NULL.
RECURSIVE SumCol(_, _)
SumCol(df, col) ==
    IF df = <<>> THEN None
    ELSE LET rest == SumCol(Tail(df), col)
             v == Head(df)[col]
         IN  IF IsNull(v) THEN rest
             ELSE IF IsNull(rest) THEN Num(v.n)
             ELSE Num(v.n + rest.n)

\* One row of the GROUP BY sud.city, sud.state_code query.
AggregatedRow(key, df) ==
    LET grp == Filter(LAMBDA r : r.city = key.city /\ r.state_code = key.state_code, df)
    IN  [city |-> key.city,
         state_code |-> key.state_code,
         male_population |-> SumCol(grp, "male_population"),
         female_population |-> SumCol(grp, "female_population"),
         total_population |-> SumCol(grp, "total_population"),
         number_of_veterans |-> SumCol(grp, "number_of_veterans"),
         num_foreign_born |-> SumCol(grp, "foreign_born")]

aggregated_df(us_demographics) ==
    LET keys == dropDuplicates([i \in DOMAIN us_demographics |->
                    [city |-> us_demographics[i].city,
                     state_code |-> us_demographics[i].state_code]])
    IN  [k \in DOMAIN keys |-> AggregatedRow(keys[k], us_demographics)]

LowerOf(c) ==
    LET i == Index("ABCDEFGHIJKLMNOPQRSTUVWXYZ", c)
    IN  IF i = 0 THEN c ELSE Char("abcdefghijklmnopqrstuvwxyz", i)

RECURSIVE LowerStr(_)
LowerStr(x) == IF x = "" THEN "" ELSE LowerOf(Head(x)) \o LowerStr(Tail(x))

\* SQL lower()
lower(v) == IF v.t = "str" THEN Str(LowerStr(v.s)) ELSE v

\* ON lower(cd.city) = lower(sp.city) AND cd.state_code = sp.state_code
CityJoinOn(sp, cd) ==
    SqlEq(lower(cd.city), lower(sp.city)) /\ SqlEq(cd.state_code, sp.state_code)

\* SELECT sp.port_code AS port_code, cd.*
CityRow(sp, cd) ==
    [port_code |-> sp.port_code,
     city |-> cd.city,
     state_code |-> cd.state_code,
     male_population |-> cd.male_population,
     female_population |-> cd.female_population,
     total_population |-> cd.total_population,
     number_of_veterans |-> cd.number_of_veterans,
     num_foreign_born |-> cd.num_foreign_born]

create_city_demographics_dim_table(us_demographics, ports) ==
    LET combined_demographics == aggregated_df(us_demographics)
    IN  FlatMap(LAMBDA sp :
            FlatMap(LAMBDA cd : IF CityJoinOn(sp, cd) THEN <<CityRow(sp, cd)>> ELSE <<>>,
                    combined_demographics),
            ports)

---------------------------------------------------------------------------
(* main(): one action per statement.                                       *)

inputs == <<file_data, input_immigration, input_demographics>>
codebooks == <<countries_df, ports_df, states_df, travel_modes_df, visa_categories_df>>
cleaned == <<cleaned_immigration_df, cleaned_us_demographics_df, cleaned_ports_df,
             cleaned_countries_df, cleaned_states_df>>
tables == <<immigration_fact_table, city_demographics_table>>

LoadImmigration ==
    /\ pc = "load_immigration"
    /\ immigration_df' = input_immigration
    /\ built' = built \cup {"immigration_df"}
    /\ pc' = "load_demographics"
    /\ UNCHANGED <<inputs, us_demographics_df, codebooks, cleaned, tables,
                   recleaned_df, written>>

LoadDemographics ==
    /\ pc = "load_demographics"
    /\ us_demographics_df' = input_demographics
    /\ built' = built \cup {"us_demographics_df"}
    /\ pc' = "get_countries"
    /\ UNCHANGED <<inputs, immigration_df, codebooks, cleaned, tables,
                   recleaned_df, written>>

\* A ValueError of the parser is caught nowhere: it ends the run.
GetCountries ==
    /\ pc = "get_countries"
    /\ LET r == get_i94_countries(file_data)
       IN  IF r.error # ""
           THEN pc' = "aborted" /\ UNCHANGED <<countries_df, built>>
           ELSE /\ countries_df' = r.df
                /\ built' = built \cup {"countries_df"}
                /\ pc' = "get_ports"
    /\ UNCHANGED <<inputs, immigration_df, us_demographics_df, ports_df, states_df,
                   travel_modes_df, visa_categories_df, cleaned, tables,
                   recleaned_df, written>>

GetPorts ==
    /\ pc = "get_ports"
    /\ LET r == get_i94_ports(file_data)
       IN  IF r.error # ""
           THEN pc' = "aborted" /\ UNCHANGED <<ports_df, built>>
           ELSE /\ ports_df' = r.df
                /\ built' = built \cup {"ports_df"}
                /\ pc' = "get_states"
    /\ UNCHANGED <<inputs, immigration_df, us_demographics_df, countries_df, states_df,
                   travel_modes_df, visa_categories_df, cleaned, tables,
                   recleaned_df, written>>

GetStates ==
    /\ pc = "get_states"
    /\ LET r == get_i94_states(file_data)
       IN  IF r.error # ""
           THEN pc' = "aborted" /\ UNCHANGED <<states_df, built>>
           ELSE /\ states_df' = r.df
                /\ built' = built \cup {"states_df"}
                /\ pc' = "get_travel_modes"
    /\ UNCHANGED <<inputs, immigration_df, us_demographics_df, countries_df, ports_df,
                   travel_modes_df, visa_categories_df, cleaned, tables,
                   recleaned_df, written>>

GetTravelModes ==
    /\ pc = "get_travel_modes"
    /\ LET r == get_i94_travel_modes(file_data)
       IN  IF r.error # ""
           THEN pc' = "aborted" /\ UNCHANGED <<travel_modes_df, built>>
           ELSE /\ travel_modes_df' = r.df
                /\ built' = built \cup {"travel_modes_df"}
                /\ pc' = "get_visas"
    /\ UNCHANGED <<inputs, immigration_df, us_demographics_df, countries_df, ports_df,
                   states_df, visa_categories_df, cleaned, tables,
                   recleaned_df, written>>

GetVisas ==
    /\ pc = "get_visas"
    /\ LET r == get_i94_visas(file_data)
       IN  IF r.error # ""
           THEN pc' = "aborted" /\ UNCHANGED <<visa_categories_df, built>>
           ELSE /\ visa_categories_df' = r.df
                /\ built' = built \cup {"visa_categories_df"}
                /\ pc' = "clean_immigration"
    /\ UNCHANGED <<inputs, immigration_df, us_demographics_df, countries_df, ports_df,
                   states_df, travel_modes_df, cleaned, tables,
                   recleaned_df, written>>

\* A udf that raises fails the job when the DataFrame is evaluated.
CleanImmigration ==
    /\ pc = "clean_immigration"
    /\ LET r == clean_immigration_data(immigration_df)
       IN  IF r.error # ""
           THEN pc' = "aborted" /\ UNCHANGED <<cleaned_immigration_df, built>>
           ELSE /\ cleaned_immigration_df' = r.df
                /\ built' = built \cup {"cleaned_immigration_df"}
                /\ pc' = "clean_demographics"
    /\ UNCHANGED <<inputs, immigration_df, us_demographics_df, codebooks,
                   cleaned_us_demographics_df, cleaned_ports_df, cleaned_countries_df,
                   cleaned_states_df, tables, recleaned_df, written>>

CleanDemographics ==
    /\ pc = "clean_demographics"
    /\ cleaned_us_demographics_df' = clean_us_demographics_data(us_demographics_df)
    /\ built' = built \cup {"cleaned_us_demographics_df"}
    /\ pc' = "clean_ports"
    /\ UNCHANGED <<inputs, immigration_df, us_demographics_df, codebooks,
                   cleaned_immigration_df, cleaned_ports_df, cleaned_countries_df,
                   cleaned_states_df, tables, recleaned_df, written>>

CleanPorts ==
    /\ pc = "clean_ports"
    /\ cleaned_ports_df' = clean_ports_data(ports_df)
    /\ built' = built \cup {"cleaned_ports_df"}
    /\ pc' = "clean_countries"
    /\ UNCHANGED <<inputs, immigration_df, us_demographics_df, codebooks,
                   cleaned_immigration_df, cleaned_us_demographics_df,
                   cleaned_countries_df, cleaned_states_df, tables,
                   recleaned_df, written>>

CleanCountries ==
    /\ pc = "clean_countries"
    /\ cleaned_countries_df' = clean_countries_data(countries_df)
    /\ built' = built \cup {"cleaned_countries_df"}
    /\ pc' = "clean_states"
    /\ UNCHANGED <<inputs, immigration_df, us_demographics_df, codebooks,
                   cleaned_immigration_df, cleaned_us_demographics_df,
                   cleaned_ports_df, cleaned_states_df, tables, recleaned_df, written>>

CleanStates ==
    /\ pc = "clean_states"
    /\ cleaned_states_df' = clean_states_data(states_df)
    /\ built' = built \cup {"cleaned_states_df"}
    /\ pc' = "create_fact"
    /\ UNCHANGED <<inputs, immigration_df, us_demographics_df, codebooks,
                   cleaned_immigration_df, cleaned_us_demographics_df,
                   cleaned_ports_df, cleaned_countries_df, tables,
                   recleaned_df, written>>

CreateFactTable ==
    /\ pc = "create_fact"
    /\ immigration_fact_table' =
           create_immigration_fact_table(cleaned_immigration_df, cleaned_countries_df,
                                         cleaned_states_df, cleaned_ports_df,
                                         visa_categories_df, travel_modes_df)
    /\ built' = built \cup {"immigration_fact_table"}
    /\ pc' = "create_city_demographics"
    /\ UNCHANGED <<inputs, immigration_df, us_demographics_df, codebooks, cleaned,
                   city_demographics_table, recleaned_df, written>>

CreateCityDemographics ==
    /\ pc = "create_city_demographics"
    /\ city_demographics_table' =
           create_city_demographics_dim_table(cleaned_us_demographics_df, cleaned_ports_df)
    /\ built' = built \cup {"city_demographics_table"}
    /\ pc' = "quality_checks"
    /\ UNCHANGED <<inputs, immigration_df, us_demographics_df, codebooks, cleaned,
                   immigration_fact_table, recleaned_df, written>>

\* The seven relations the data quality checks count, in the order of the checks.
CheckedRelations ==
    <<immigration_fact_table, city_demographics_table, cleaned_ports_df,
      cleaned_countries_df, cleaned_states_df, visa_categories_df, travel_modes_df>>

\* The checks whose relation has count() == 0.
FailedQualityChecks == {i \in DOMAIN CheckedRelations : Len(CheckedRelations[i]) = 0}

\* The exceptions the data quality checks raise. Each check reads
\*     if df.count() == 0: Exception("Invalid dataset. ...")
\* which builds the exception and drops it: there is no raise statement.
RaisedByQualityChecks == {i \in FailedQualityChecks : FALSE}

QualityChecks ==
    /\ pc = "quality_checks"
    /\ pc' = IF RaisedByQualityChecks # {} THEN "aborted" ELSE "write_fact"
    /\ UNCHANGED <<inputs, built, immigration_df, us_demographics_df, codebooks,
                   cleaned, tables, recleaned_df, written>>

\* The variables a write leaves alone.
unwritten == <<inputs, built, immigration_df, us_demographics_df, codebooks,
               cleaned, tables, recleaned_df>>

\* immigration_fact_table.write.mode('overwrite').parquet(OUTPUT_DATA_DIR + "fact_immigrations.parquet")
WriteFact ==
    /\ pc = "write_fact"
    /\ written' = Append(written, "fact_immigrations.parquet")
    /\ pc' = "write_city_demographics"
    /\ UNCHANGED unwritten

\* city_demographics_table.write.mode('overwrite').parquet(OUTPUT_DATA_DIR + "dim_city_demographics.parquet")
WriteCityDemographics ==
    /\ pc = "write_city_demographics"
    /\ written' = Append(written, "dim_city_demographics.parquet")
    /\ pc' = "write_countries"
    /\ UNCHANGED unwritten

\* cleaned_countries_df.write.mode('overwrite').parquet(OUTPUT_DATA_DIR + "dim_country.parquet")
WriteCountries ==
    /\ pc = "write_countries"
    /\ written' = Append(written, "dim_country.parquet")
    /\ pc' = "write_states"
    /\ UNCHANGED unwritten

\* cleaned_states_df.write.mode('overwrite').parquet(OUTPUT_DATA_DIR + "dim_us_state.parquet")
WriteStates ==
    /\ pc = "write_states"
    /\ written' = Append(written, "dim_us_state.parquet")
    /\ pc' = "write_ports"
    /\ UNCHANGED unwritten

\* cleaned_ports_df.write.mode('overwrite').parquet(OUTPUT_DATA_DIR + "dim_ports.parquet")
WritePorts ==
    /\ pc = "write_ports"
    /\ written' = Append(written, "dim_ports.parquet")
    /\ pc' = "write_travel_modes"
    /\ UNCHANGED unwritten

\* travel_modes_df.write.mode('overwrite').parquet(OUTPUT_DATA_DIR + "dim_travel_mode.parquet")
WriteTravelModes ==
    /\ pc = "write_travel_modes"
    /\ written' = Append(written, "dim_travel_mode.parquet")
    /\ pc' = "write_visas"
    /\ UNCHANGED unwritten

\* visa_categories_df.write.mode('overwrite').parquet(OUTPUT_DATA_DIR + "dim_visa_category.parquet")
WriteVisas ==
    /\ pc = "write_visas"
    /\ written' = Append(written, "dim_visa_category.parquet")
    /\ pc' = "done"
    /\ UNCHANGED unwritten

Next ==
    \/ LoadImmigration \/ LoadDemographics
    \/ GetCountries \/ GetPorts \/ GetStates \/ GetTravelModes \/ GetVisas
    \/ CleanImmigration \/ CleanDemographics \/ CleanPorts \/ CleanCountries
    \/ CleanStates
    \/ CreateFactTable \/ CreateCityDemographics
    \/ QualityChecks
    \/ WriteFact \/ WriteCityDemographics \/ WriteCountries \/ WriteStates
    \/ WritePorts \/ WriteTravelModes \/ WriteVisas

\* The state main() starts in, given what is on disk.
Start(doc, immigration, demographics) ==
    /\ pc = "load_immigration"
    /\ file_data = doc
    /\ input_immigration = immigration
    /\ input_demographics = demographics
    /\ built = {}
    /\ immigration_df = <<>> /\ us_demographics_df = <<>>
    /\ countries_df = <<>> /\ ports_df = <<>> /\ states_df = <<>>
    /\ travel_modes_df = <<>> /\ visa_categories_df = <<>>
    /\ cleaned_immigration_df = <<>> /\ cleaned_us_demographics_df = <<>>
    /\ cleaned_ports_df = <<>> /\ cleaned_countries_df = <<>>
    /\ cleaned_states_df = <<>>
    /\ immigration_fact_table = <<>> /\ city_demographics_table = <<>>
    /\ recleaned_df = [error |-> "", df |-> <<>>]
    /\ written = <<>>

---------------------------------------------------------------------------
(* Inputs.                                                                 *)

\* An immigration row; the columns no transformation reads hold fixed values.
ImmigrationRow(cicid, res, port, addr, visa, mode, arr, dep, birth) ==
    [cicid |-> Num(cicid), i94yr |-> Num(2016), i94mon |-> Num(4),
     i94res |-> res, i94port |-> port, arrdate |-> arr, i94mode |-> mode,
     i94addr |-> addr, depdate |-> dep, i94bir |-> Num(30), i94visa |-> visa,
     occup |-> None, gender |-> Str("M"), biryear |-> birth,
     dtaddto |-> Str("10282016"), airline |-> Str("DL"), admnum |-> Num(1),
     fltno |-> Str("00042"), visatype |-> Str("B2")]

\* A row of the demographics file.
DemographicsRow(city, state_code, race, male, total, veterans) ==
    [city |-> Str(city), state |-> Str("State"), median_age |-> Num(33),
     male_population |-> male, female_population |-> Num(2),
     total_population |-> total, number_of_veterans |-> veterans,
     foreign_born |-> Num(3), average_household_size |-> Num(2),
     state_code |-> Str(state_code), race |-> Str(race), count |-> Num(7)]

\* The sequences of at most k elements of S.
RECURSIVE SeqsUpTo(_, _)
SeqsUpTo(S, k) ==
    IF k = 0 THEN {<<>>}
    ELSE LET shorter == SeqsUpTo(S, k - 1)
         IN  shorter \cup {Append(q, x) : q \in shorter, x \in S}

\* The texts made of at most k of the given pieces.
RECURSIVE TextsUpTo(_, _)
TextsUpTo(S, k) ==
    IF k = 0 THEN {""}
    ELSE LET shorter == TextsUpTo(S, k - 1)
         IN  shorter \cup {q \o x : q \in shorter, x \in S}

\* Blocks of the labels file, as the file writes them.
ResBlock == "I94RES\n   582 =  'MEXICO'\n   403 =  'INVALID: AMERICAN SAMOA'\n;\n"
PortBlock == "I94PORT\n   'ATL'\t=\t'ATLANTA, GA           '\n   'XXX'\t=\t'NOT REPORTED/UNKNOWN'\n;\n"
AddrBlock == "I94ADDR\n\t'GA'='GEORGIA'\n\t'99'='All Other Codes'\n;\n"
ModeBlock == "I94MODE\n\t1 = 'Air'\n\t9 = 'Not reported'\n;\n"
VisaBlock == "I94VISA\n   1 = Business\n   2 = Pleasure\n;\n"

\* A block as written, without its entries, without its terminator, or absent.
BlockVariants(name, block) ==
    {block, name \o "\n;\n", SubSeq(block, 1, Len(block) - 2), ""}

Documents ==
    {res \o port \o addr \o mode \o visa :
        res \in BlockVariants("I94RES", ResBlock),
        port \in BlockVariants("I94PORT", PortBlock),
        addr \in BlockVariants("I94ADDR", AddrBlock),
        mode \in BlockVariants("I94MODE", ModeBlock),
        visa \in BlockVariants("I94VISA", VisaBlock)}

AtlantaArrival ==
    ImmigrationRow(1, Str("582"), Str("ATL"), Str("GA"), Str("2"), Str("1"),
                   Num(20545), Num(20560), Num(1986))

AtlantaWhite == DemographicsRow("Atlanta", "GA", "White", Num(1), Num(100), Num(5))
AtlantaAsian == DemographicsRow("Atlanta", "GA", "Asian", Num(1), Num(200), Num(5))

Init ==
    \E doc \in Documents,
       immigration \in {<<>>, <<AtlantaArrival>>},
       demographics \in {<<>>, <<AtlantaWhite, AtlantaAsian>>} :
        Start(doc, immigration, demographics)

Spec == Init /\ [][Next]_vars

---------------------------------------------------------------------------
(* The quality gate and the parse failure (Spec).                          *)

WritePositions ==
    {"write_fact", "write_city_demographics", "write_countries", "write_states",
     "write_ports", "write_travel_modes", "write_visas"}

\* C1: a run gets past the quality gate, to a write or to its end, only if
\* none of the seven output relations is empty; so a relation is written only
\* when all seven have rows.
C1_WritesOnlyNonEmpty ==
    (pc \in WritePositions \cup {"done"} \/ written # <<>>)
        => \A i \in DOMAIN CheckedRelations : Len(CheckedRelations[i]) > 0

\* The five block names main() asks the parser for, in the order of the calls,
\* with the DataFrame each gives and the position of its call.
RequiredBlocks == <<"I94RES", "I94PORT", "I94ADDR", "I94MODE", "I94VISA">>
ReferenceTables ==
    <<"countries_df", "ports_df", "states_df", "travel_modes_df", "visa_categories_df">>
ParsePositions ==
    <<"get_countries", "get_ports", "get_states", "get_travel_modes", "get_visas">>

NameAt(text, name, p) ==
    p + Len(name) - 1 <= Len(text) /\ SubSeq(text, p, p + Len(name) - 1) = name

\* The block name occurs in the text and a ';' follows its first occurrence.
BlockWellFormed(text, name) ==
    \E p \in 1 .. Len(text) :
        /\ NameAt(text, name, p)
        /\ \A o \in 1 .. (p - 1) : ~NameAt(text, name, o)
        /\ \E q \in p .. Len(text) : Char(text, q) = ";"

BadBlocks == {k \in DOMAIN RequiredBlocks : ~BlockWellFormed(file_data, RequiredBlocks[k])}

FirstBadBlock == CHOOSE k \in BadBlocks : \A o \in BadBlocks : k <= o

\* C6 (as amended): when a required block is absent or unterminated, the run
\* never gets past the parser call of the first such block, where it ends
\* aborted: the reference tables of the blocks before it are built, nothing
\* else is built beyond the two loaded datasets, and nothing is written. A run
\* aborts at a parser call only for such a block.
C6_ParseFailureAborts ==
    LET called == {ParsePositions[j] : j \in 1 .. FirstBadBlock}
        before == {ReferenceTables[j] : j \in 1 .. (FirstBadBlock - 1)}
    IN  /\ BadBlocks # {} =>
            /\ pc \in {"load_immigration", "load_demographics", "aborted"} \cup called
            /\ written = <<>>
            /\ built \subseteq {"immigration_df", "us_demographics_df"} \cup before
            /\ pc = "aborted" =>
                   built = {"immigration_df", "us_demographics_df"} \cup before
        /\ pc = "aborted" => BadBlocks # {}

\* C6 witness: the run aborted at the parse of a block that has no terminator,
\* after the two blocks before it were parsed.
C6_Witness ==
    /\ pc = "aborted"
    /\ BadBlocks # {}
    /\ FirstBadBlock = 3
    /\ Index(file_data, "I94ADDR") # 0
    /\ built = {"immigration_df", "us_demographics_df", "countries_df", "ports_df"}

\* C6 as stated: with a required block absent or unterminated, no reference
\* table is ever built and nothing is written.
C6_AbortsBeforeAnyReferenceTable ==
    BadBlocks # {} =>
        /\ built \cap Range(ReferenceTables) = {}
        /\ written = <<>>

---------------------------------------------------------------------------
(* The fact table (SpecFact): label files with repeated codes and with the *)
(* "99" state, immigration rows that resolve and rows that do not.         *)

MaxImmRows == 2

\* A country block that lists code 582 twice.
ResBlockRepeated == "I94RES\n   582 =  'MEXICO'\n   582 =  'MEXICO Air Sea'\n;\n"
\* A state block whose only entry is the "99" sentinel.
AddrBlockOnly99 == "I94ADDR\n\t '99' = 'All Other Codes'\n;\n"

FactDocuments ==
    {res \o PortBlock \o addr \o ModeBlock \o VisaBlock :
        res \in {ResBlock, ResBlockRepeated}, addr \in {AddrBlock, AddrBlockOnly99}}

FactRows ==
    {AtlantaArrival,
     \* state "99", the sentinel the states cleaner removes
     ImmigrationRow(2, Str("582"), Str("ATL"), Str("99"), Str("2"), Str("1"),
                    Num(20545), None, Num(1986)),
     \* no state
     ImmigrationRow(3, Str("582"), Str("ATL"), None, Str("2"), Str("1"),
                    Num(20545), None, Num(1986)),
     \* a country that is in no code-book
     ImmigrationRow(4, Str("000"), Str("ATL"), Str("GA"), Str("2"), Str("1"),
                    Num(20545), None, Num(1986)),
     \* a port whose display-name has no comma
     ImmigrationRow(5, Str("582"), Str("XXX"), Str("GA"), Str("1"), Str("9"),
                    Num(20545), None, Num(1986)),
     \* a visa category that is in no code-book
     ImmigrationRow(6, Str("403"), Str("ATL"), Str("GA"), Str("3"), Str("1"),
                    Num(20545), None, Num(1986))}

InitFact ==
    \E doc \in FactDocuments, immigration \in SeqsUpTo(FactRows, MaxImmRows) :
        Start(doc, immigration, <<AtlantaWhite, AtlantaAsian>>)

SpecFact == InitFact /\ [][Next]_vars

\* Whether code is the value of column col in some row of the code-book df.
InCodeBook(code, df, col) == \E r \in Range(df) : ~IsNull(code) /\ r[col] = code

\* C2: every row of the fact table has its country, port, state, visa-category
\* and travel-mode code in the code-book that was joined; it stems from a cleaned
\* immigration row with these codes; "99" is no state code of the cleaned state
\* dimension nor of a fact row.
C2_ReferentialIntegrity ==
    /\ "cleaned_states_df" \in built =>
           \A r \in Range(cleaned_states_df) : r.state_code # Str("99")
    /\ "immigration_fact_table" \in built =>
           \A f \in Range(immigration_fact_table) :
               /\ InCodeBook(f.origin_country_code, cleaned_countries_df, "country_code")
               /\ InCodeBook(f.port_code, cleaned_ports_df, "port_code")
               /\ InCodeBook(f.us_state_code, cleaned_states_df, "state_code")
               /\ InCodeBook(f.visa_category_code, visa_categories_df, "visa_category_id")
               /\ InCodeBook(f.travel_mode_code, travel_modes_df, "mode_id")
               /\ f.us_state_code # Str("99")
               /\ \E r \in Range(cleaned_immigration_df) :
                      /\ r.cicid = f.cicid
                      /\ r.i94res = f.origin_country_code
                      /\ r.i94port = f.port_code
                      /\ r.i94addr = f.us_state_code
                      /\ r.i94visa = f.visa_category_code
                      /\ r.i94mode = f.travel_mode_code

\* C2 witness: a finished run whose label file lists state "99", with an
\* immigration row of state "99" that is left out and one that is in the fact
\* table.
C2_Witness ==
    /\ pc = "done"
    /\ \E r \in Range(states_df) : r.state_code = Str("99")
    /\ \E r \in Range(cleaned_immigration_df) : r.i94addr = Str("99")
    /\ Len(immigration_fact_table) = 1
    /\ Len(cleaned_immigration_df) = 2

CodesUnique(df, col) ==
    \A i, j \in DOMAIN df : df[i][col] = df[j][col] => i = j

\* C10: codes are unique within each code-book the fact table is joined with,
\* and the fact table has no more rows than the cleaned immigration relation.
C10_NoFanOut ==
    "immigration_fact_table" \in built =>
        /\ CodesUnique(cleaned_countries_df, "country_code")
        /\ CodesUnique(cleaned_ports_df, "port_code")
        /\ CodesUnique(cleaned_states_df, "state_code")
        /\ CodesUnique(visa_categories_df, "visa_category_id")
        /\ CodesUnique(travel_modes_df, "mode_id")
        /\ Len(immigration_fact_table) <= Len(cleaned_immigration_df)

---------------------------------------------------------------------------
(* The city demographics dimension (SpecDemo): demographics files with     *)
(* several race rows per city, rows with a missing value, repeated rows;   *)
(* port blocks with one port, two ports and a repeated port code for the   *)
(* same city.                                                              *)

MaxDemoRows == 2

PortBlockTwoPorts ==
    "I94PORT\n   'ATL'\t=\t'ATLANTA, GA'\n   'FTY'\t=\t'Atlanta, GA'\n;\n"
PortBlockRepeated ==
    "I94PORT\n   'ATL'\t=\t'ATLANTA, GA'\n   'ATL'\t=\t'Atlanta, GA'\n;\n"

DemoDocuments ==
    [k \in 1 .. 3 |->
        ResBlock \o <<PortBlock, PortBlockTwoPorts, PortBlockRepeated>>[k]
            \o AddrBlock \o ModeBlock \o VisaBlock]

DemoRows ==
    {AtlantaWhite, AtlantaAsian,
     \* the same city in another spelling
     DemographicsRow("ATLANTA", "GA", "Black", Num(1), Num(50), Num(5)),
     \* a row with no number of veterans
     DemographicsRow("Atlanta", "GA", "Hispanic", Num(1), Num(400), None),
     \* a city with no port
     DemographicsRow("Boston", "MA", "White", Num(1), Num(70), Num(5)),
     \* the city name of a port, in another state
     DemographicsRow("Atlanta", "AL", "White", Num(1), Num(90), Num(5))}

InitDemo ==
    \E demographics \in SeqsUpTo(DemoRows, MaxDemoRows), k \in DOMAIN DemoDocuments :
        Start(DemoDocuments[k], <<AtlantaArrival>>, demographics)

SpecDemo == InitDemo /\ [][Next]_vars

\* The sum of column col over a set of rows, a missing value counting 0.
RECURSIVE SetSum(_, _)
SetSum(S, col) ==
    IF S = {} THEN 0
    ELSE LET r == CHOOSE x \in S : TRUE
         IN  (IF IsNull(r[col]) THEN 0 ELSE r[col].n) + SetSum(S \ {r}, col)

\* The same over the rows of DataFrame df at the indices I, each row counting.
RECURSIVE IndexSum(_, _, _)
IndexSum(df, I, col) ==
    IF I = {} THEN 0
    ELSE LET i == CHOOSE x \in I : TRUE
         IN  (IF IsNull(df[i][col]) THEN 0 ELSE df[i][col].n)
                 + IndexSum(df, I \ {i}, col)

SameLetter(a, b) ==
    \/ a = b
    \/ \E k \in 1 .. 26 :
           {a, b} = {Char("ABCDEFGHIJKLMNOPQRSTUVWXYZ", k),
                     Char("abcdefghijklmnopqrstuvwxyz", k)}

\* Two texts that differ in the case of their letters at most.
EqualIgnoringCase(x, y) ==
    Len(x) = Len(y) /\ \A k \in 1 .. Len(x) : SameLetter(Char(x, k), Char(y, k))

\* The rows of the demographics input with a value in every column, each
\* distinct row once.
CompleteRows ==
    {r \in Range(us_demographics_df) : \A c \in DOMAIN r : ~IsNull(r[c])}

\* The (city, state code) pairs of these rows.
Cities == {<<r.city, r.state_code>> : r \in CompleteRows}

\* The pairs of such a city and a row of the cleaned ports relation that agree
\* on the city, whatever the case of its letters, and on the state code.
CityPortMatches ==
    {m \in Cities \X DOMAIN cleaned_ports_df :
        /\ EqualIgnoringCase(m[1][1].s, cleaned_ports_df[m[2]].city.s)
        /\ m[1][2] = cleaned_ports_df[m[2]].state_code}

CityRowWith(port_code, city, state_code, sum(_)) ==
    [port_code |-> port_code,
     city |-> city,
     state_code |-> state_code,
     male_population |-> Num(sum("male_population")),
     female_population |-> Num(sum("female_population")),
     total_population |-> Num(sum("total_population")),
     number_of_veterans |-> Num(sum("number_of_veterans")),
     num_foreign_born |-> Num(sum("foreign_born"))]

\* The dimension row of a match, its sums taken over the complete rows.
ExpectedCityRow(m) ==
    CityRowWith(cleaned_ports_df[m[2]].port_code, m[1][1], m[1][2],
                LAMBDA col : SetSum({r \in CompleteRows :
                                        r.city = m[1][1] /\ r.state_code = m[1][2]}, col))

\* C7 (as amended): the dimension has exactly one row for each pair of an
\* aggregated city and a cleaned port row that agree on the city, whatever the
\* case, and on the state code, and no other row; the sums of a row are the sums
\* over the rows of that city and state code in the cleaned demographics, that
\* is over the input rows with no missing value, equal rows counting once.
C7_CityDemographics ==
    "city_demographics_table" \in built =>
        \A x \in Range(city_demographics_table)
                    \cup {ExpectedCityRow(m) : m \in CityPortMatches} :
            Count(x, city_demographics_table)
                = Cardinality({m \in CityPortMatches : ExpectedCityRow(m) = x})

\* C7 witness: the two race rows of Atlanta, GA (100 and 200 inhabitants) give
\* one row of 300 with port ATL.
C7_Witness ==
    /\ pc = "done"
    /\ Len(us_demographics_df) = 2
    /\ Len(city_demographics_table) = 1
    /\ \E x \in Range(city_demographics_table) :
           /\ x.port_code = Str("ATL")
           /\ x.city = Str("Atlanta")
           /\ x.total_population = Num(300)

\* C7 as stated: one row per (city, state code, port code) on which the
\* aggregated demographics and the cleaned ports agree, no other row, and the
\* sums of a row are the sums over all rows of that city in the input.
C7_SumsOverRawInput ==
    "city_demographics_table" \in built =>
        /\ \A m \in CityPortMatches :
               Cardinality({k \in DOMAIN city_demographics_table :
                   /\ city_demographics_table[k].city = m[1][1]
                   /\ city_demographics_table[k].state_code = m[1][2]
                   /\ city_demographics_table[k].port_code
                          = cleaned_ports_df[m[2]].port_code}) = 1
        /\ \A x \in Range(city_demographics_table) :
               /\ \E m \in CityPortMatches :
                      /\ x.city = m[1][1]
                      /\ x.state_code = m[1][2]
                      /\ x.port_code = cleaned_ports_df[m[2]].port_code
               /\ x = CityRowWith(x.port_code, x.city, x.state_code,
                          LAMBDA col : IndexSum(us_demographics_df,
                              {i \in DOMAIN us_demographics_df :
                                  /\ us_demographics_df[i].city = x.city
                                  /\ us_demographics_df[i].state_code = x.state_code},
                              col))

---------------------------------------------------------------------------
(* The immigration cleaner (SpecClean): day offsets around the epoch, the  *)
(* leap day of 1960 and the dates of the data set; then the cleaner once   *)
(* more, on its own output.                                                *)

MaxOffset == 70

Offsets ==
    {None} \cup {Num(d) : d \in ((0 - MaxOffset) .. MaxOffset) \cup {365, 366, 14670, 20545}}

DateRows ==
    {ImmigrationRow(1, Str("582"), Str("ATL"), Str("GA"), Str("2"), Str("1"),
                    arr, dep, birth) :
        arr \in Offsets,
        dep \in {None, Num(0), Num(20560)},
        birth \in {None, Num(1986), Num(2017)}}

\* Rows that the cleaner makes equal, and rows it keeps apart.
RepeatedRows ==
    {ImmigrationRow(1, Str("582"), Str("ATL"), Str("GA"), Str("2"), Str("1"),
                    arr, dep, birth) :
        arr \in {None, Num(0)}, dep \in {None}, birth \in {None, Num(1899)}}
    \cup {ImmigrationRow(2, Str("582"), Str("ATL"), Str("GA"), Str("2"), Str("1"),
                         None, None, None)}

FullDocument == ResBlock \o PortBlock \o AddrBlock \o ModeBlock \o VisaBlock

InitClean ==
    \E immigration \in {<<r>> : r \in DateRows} \cup SeqsUpTo(RepeatedRows, MaxImmRows) :
        Start(FullDocument, immigration, <<AtlantaWhite, AtlantaAsian>>)

\* clean_immigration_data(cleaned_immigration_df), after the run.
CleanAgain ==
    /\ pc = "done"
    /\ recleaned_df' = clean_immigration_data(cleaned_immigration_df)
    /\ pc' = "recleaned"
    /\ UNCHANGED <<inputs, built, immigration_df, us_demographics_df, codebooks,
                   cleaned, tables, written>>

NextClean == Next \/ CleanAgain

SpecClean == InitClean /\ [][NextClean]_vars

DigitValue(c) == Index("0123456789", c) - 1

IsDigits(x) == \A k \in 1 .. Len(x) : Index("0123456789", Char(x, k)) # 0

RECURSIVE Number(_)
Number(x) ==
    IF x = "" THEN 0
    ELSE 10 * Number(SubSeq(x, 1, Len(x) - 1)) + DigitValue(Char(x, Len(x)))

\* The days from 1970-01-01 to the day d of month m of year y.
DaysFromCivil(y, m, d) ==
    LET yy == IF m <= 2 THEN y - 1 ELSE y
        era == yy \div 400
        yoe == yy - era * 400
        doy == (153 * ((m + 9) % 12) + 2) \div 5 + d - 1
        doe == yoe * 365 + yoe \div 4 - yoe \div 100 + doy
    IN  era * 146097 + doe - 719468

\* x is YYYY-MM-DD and names a day of the calendar.
IsCalendarDate(x) ==
    /\ Len(x) = 10
    /\ Char(x, 5) = "-" /\ Char(x, 8) = "-"
    /\ IsDigits(SubSeq(x, 1, 4)) /\ IsDigits(SubSeq(x, 6, 7)) /\ IsDigits(SubSeq(x, 9, 10))
    /\ Number(SubSeq(x, 6, 7)) \in 1 .. 12
    /\ Number(SubSeq(x, 9, 10)) \in
           1 .. DaysInMonth(Number(SubSeq(x, 1, 4)), Number(SubSeq(x, 6, 7)))

DayNumber(x) ==
    DaysFromCivil(Number(SubSeq(x, 1, 4)), Number(SubSeq(x, 6, 7)), Number(SubSeq(x, 9, 10)))

\* out is what the claim says of the offset raw: null for a null or zero offset,
\* and else the date that many days from 1960-01-01.
ConvertedDate(raw, out) ==
    IF IsNull(raw) \/ raw = Num(0) THEN IsNull(out)
    ELSE /\ out.t = "str"
         /\ IsCalendarDate(out.s)
         /\ DayNumber(out.s) - DayNumber("1960-01-01") = raw.n

\* c is the cleaned form of r as far as the dates go.
DatesCleaned(r, c) ==
    /\ \A col \in DOMAIN r \ {"arrdate", "depdate", "biryear"} : c[col] = r[col]
    /\ ConvertedDate(r.arrdate, c.arrdate)
    /\ ConvertedDate(r.depdate, c.depdate)

\* C3: each immigration row has a cleaned row, and each cleaned row an
\* immigration row, whose arrival and departure dates are 1960-01-01 plus the
\* day offset, or null when the offset is 0 or null.
C3_DateConversion ==
    "cleaned_immigration_df" \in built =>
        /\ \A r \in Range(immigration_df) :
               \E c \in Range(cleaned_immigration_df) : DatesCleaned(r, c)
        /\ \A c \in Range(cleaned_immigration_df) :
               \E r \in Range(immigration_df) : DatesCleaned(r, c)

\* C3 witness: arrival offset 20545 became 2016-04-01 and departure offset 0
\* became null.
C3_Witness ==
    /\ "cleaned_immigration_df" \in built
    /\ \E r \in Range(immigration_df) : r.arrdate = Num(20545) /\ r.depdate = Num(0)
    /\ \E c \in Range(cleaned_immigration_df) :
           c.arrdate = Str("2016-04-01") /\ IsNull(c.depdate)

\* Two DataFrames with the same rows, each as many times.
SameRows(a, b) == \A x \in Range(a) \cup Range(b) : Count(x, a) = Count(x, b)

\* The cleaned rows with neither dates nor birth year.
AllNullCleaned ==
    \A c \in Range(cleaned_immigration_df) :
        IsNull(c.arrdate) /\ IsNull(c.depdate) /\ IsNull(c.biryear)

\* C4 (as amended): the cleaner applied to its own output gives that output
\* again when no cleaned row has an arrival date, a departure date or a birth
\* year, and fails with a TypeError when some row has one.
C4_CleanAgain ==
    pc = "recleaned" =>
        IF AllNullCleaned
        THEN recleaned_df.error = "" /\ SameRows(recleaned_df.df, cleaned_immigration_df)
        ELSE recleaned_df.error = "TypeError"

\* C4 witness: two input rows the cleaner made equal, cleaned a second time
\* without failure.
C4_Witness ==
    /\ pc = "recleaned"
    /\ Len(immigration_df) = 2
    /\ Len(cleaned_immigration_df) = 1
    /\ recleaned_df.error = ""
    /\ recleaned_df.df = cleaned_immigration_df

\* C4 as stated: the cleaner applied to its own output succeeds and gives that
\* output again.
C4_Idempotent ==
    pc = "recleaned" =>
        recleaned_df.error = "" /\ SameRows(recleaned_df.df, cleaned_immigration_df)

---------------------------------------------------------------------------
(* The parser (SpecParser): I94RES blocks made of a few pieces of text,    *)
(* after the ';' of an earlier statement.                                  *)

MaxDocPieces == 3

DocPieces == {"=", "\n", "'", "A", " 'B C'\t", ";", "I94RES"}

ParserDocuments ==
    {"libname library;\nI94RES\n" \o body \o ";\n"
         \o PortBlock \o AddrBlock \o ModeBlock \o VisaBlock :
        body \in TextsUpTo(DocPieces, MaxDocPieces)}

InitParser ==
    \E doc \in ParserDocuments :
        Start(doc, <<AtlantaArrival>>, <<AtlantaWhite, AtlantaAsian>>)

SpecParser == InitParser /\ [][Next]_vars

\* s without the characters of chars at its two ends.
Trimmed(s, chars) ==
    LET keep == {k \in 1 .. Len(s) : Char(s, k) \notin chars}
    IN  IF keep = {} THEN ""
        ELSE SubSeq(s, CHOOSE k \in keep : \A o \in keep : k <= o,
                       CHOOSE k \in keep : \A o \in keep : o <= k)

Unquoted(s) == Trimmed(Trimmed(s, Whitespace), {"'"})

\* The pairs the claim gives for a block that is present and terminated: the
\* block is the text from the first occurrence of the name up to the next ';',
\* its lines are what lies between line breaks, and the k-th line with exactly
\* one '=' gives the k-th pair.
ExpectedPairs(text, name) ==
    LET start == CHOOSE p \in 1 .. Len(text) :
                     NameAt(text, name, p) /\ \A o \in 1 .. (p - 1) : ~NameAt(text, name, o)
        stop == CHOOSE q \in start .. Len(text) :
                    Char(text, q) = ";" /\ \A o \in start .. (q - 1) : Char(text, o) # ";"
        block == SubSeq(text, start, stop - 1)
        breaks == {0, Len(block) + 1} \cup {k \in 1 .. Len(block) : Char(block, k) = "\n"}
        LineEnd(b) == CHOOSE e \in breaks : e > b /\ \A o \in breaks : o > b => e <= o
        Equals(b) == {k \in (b + 1) .. (LineEnd(b) - 1) : Char(block, k) = "="}
        valid == {b \in breaks \ {Len(block) + 1} : Cardinality(Equals(b)) = 1}
        LineOf(k) == CHOOSE b \in valid : Cardinality({o \in valid : o <= b}) = k
    IN  [k \in 1 .. Cardinality(valid) |->
            LET b == LineOf(k)
                eq == CHOOSE e \in Equals(b) : TRUE
            IN  <<Unquoted(SubSeq(block, b + 1, eq - 1)),
                  Unquoted(SubSeq(block, eq + 1, LineEnd(b) - 1))>>]

\* The (code, name) pairs of the five reference tables, in the order of the calls.
ReferencePairs ==
    <<[i \in DOMAIN countries_df |->
          <<countries_df[i].country_code.s, countries_df[i].country_name.s>>],
      [i \in DOMAIN ports_df |-> <<ports_df[i].port_code.s, ports_df[i].port_name.s>>],
      [i \in DOMAIN states_df |-> <<states_df[i].state_code.s, states_df[i].state_name.s>>],
      [i \in DOMAIN travel_modes_df |->
          <<travel_modes_df[i].mode_id.s, travel_modes_df[i].mode_name.s>>],
      [i \in DOMAIN visa_categories_df |->
          <<visa_categories_df[i].visa_category_id.s,
            visa_categories_df[i].visa_category.s>>]>>

\* C5: for a block name present in the document with a ';' after it, the
\* parser does not fail and returns, in document order, one stripped
\* (code, name) pair for each line of the block with exactly one '=', and
\* nothing for any other line.
C5_ParserResult ==
    \A k \in DOMAIN RequiredBlocks :
        BlockWellFormed(file_data, RequiredBlocks[k]) =>
            /\ ~(pc = "aborted" /\ built =
                    {"immigration_df", "us_demographics_df"}
                        \cup {ReferenceTables[j] : j \in 1 .. (k - 1)})
            /\ ReferenceTables[k] \in built =>
                   ReferencePairs[k] = ExpectedPairs(file_data, RequiredBlocks[k])

\* C5 witness: a block after an earlier ';', whose header line was skipped and
\* whose one entry lost its blanks and quotes.
C5_Witness ==
    /\ "countries_df" \in built
    /\ Index(file_data, ";") < Index(file_data, "I94RES")
    /\ Index(file_data, "A= 'B C'\t;") # 0
    /\ countries_df = <<CountryRow(<<"A", "B C">>)>>

---------------------------------------------------------------------------
(* The countries cleaner (SpecCountries): country names made of the three  *)
(* placeholder words and other text.                                       *)

MaxCountryPieces == 3

CountryNames == TextsUpTo({"No Country", "INVALID", "Collapsed", "X", " "}, MaxCountryPieces)

CountriesDocuments ==
    {"I94RES\n   582 =  'MEXICO'\n   403 =  '" \o name \o "'\n;\n"
         \o PortBlock \o AddrBlock \o ModeBlock \o VisaBlock :
        name \in CountryNames}

InitCountries ==
    \E doc \in CountriesDocuments :
        Start(doc, <<AtlantaArrival>>, <<AtlantaWhite, AtlantaAsian>>)

SpecCountries == InitCountries /\ [][Next]_vars

StartsWith(s, prefix) == Len(prefix) <= Len(s) /\ SubSeq(s, 1, Len(prefix)) = prefix

IsPlaceholderName(s) ==
    StartsWith(s, "No Country") \/ StartsWith(s, "INVALID") \/ StartsWith(s, "Collapsed")

\* C8: the countries cleaner keeps every row; a name that starts with
\* "No Country", "INVALID" or "Collapsed" becomes "NA" and every other name
\* stays as it is.
C8_CountriesCleaner ==
    "cleaned_countries_df" \in built =>
        /\ Len(cleaned_countries_df) = Len(countries_df)
        /\ \A i \in DOMAIN countries_df :
               /\ cleaned_countries_df[i].country_code = countries_df[i].country_code
               /\ cleaned_countries_df[i].country_name =
                      IF IsPlaceholderName(countries_df[i].country_name.s)
                      THEN Str("NA")
                      ELSE countries_df[i].country_name

---------------------------------------------------------------------------
(* The ports cleaner (SpecPorts): display names with no, one or more       *)
(* commas, one of them listed twice.                                       *)

MaxPortPieces == 4

PortNames == TextsUpTo({",", " ", "A", "GA"}, MaxPortPieces)

PortsDocuments ==
    {ResBlock \o "I94PORT\n   'ATL'\t=\t'ATLANTA, GA           '\n   'P'\t=\t'" \o name
         \o "'\n   'P'\t=\t'" \o name \o "'\n;\n" \o AddrBlock \o ModeBlock \o VisaBlock :
        name \in PortNames}

InitPorts ==
    \E doc \in PortsDocuments :
        Start(doc, <<AtlantaArrival>>, <<AtlantaWhite, AtlantaAsian>>)

SpecPorts == InitPorts /\ [][Next]_vars

Commas(s) == {k \in 1 .. Len(s) : Char(s, k) = ","}

FirstComma(s) == CHOOSE k \in Commas(s) : \A o \in Commas(s) : k <= o

\* Where the text after the first comma stops: at the second comma, or at the
\* end of the name.
SecondCommaOrEnd(s) ==
    LET later == {k \in Commas(s) : k > FirstComma(s)}
    IN  IF later = {} THEN Len(s) + 1 ELSE CHOOSE k \in later : \A o \in later : k <= o

\* The cleaned row of a port whose name has a comma, with the state code taken
\* from the text between the first comma and the position stop.
CleanedPort(r, stop) ==
    [port_code |-> r.port_code,
     city |-> Str(Trimmed(SubSeq(r.port_name.s, 1, FirstComma(r.port_name.s) - 1), Whitespace)),
     state_code |-> Str(Trimmed(SubSeq(r.port_name.s, FirstComma(r.port_name.s) + 1, stop - 1),
                                Whitespace))]

PortsWithComma == {r \in Range(ports_df) : Commas(r.port_name.s) # {}}

NoEqualRows(df) == \A i, j \in DOMAIN df : df[i] = df[j] => i = j

\* C9 (as amended): the cleaned ports are, each once, the rows (port code,
\* city, state code) of the entries whose display name has a comma, with city
\* the trimmed text before the first comma and state code the trimmed text
\* between the first comma and the second one (or the end of the name when
\* there is no second); entries without a comma give no row.
C9_PortsCleaner ==
    "cleaned_ports_df" \in built =>
        /\ NoEqualRows(cleaned_ports_df)
        /\ Range(cleaned_ports_df) =
               {CleanedPort(r, SecondCommaOrEnd(r.port_name.s)) : r \in PortsWithComma}

\* C9 witness: a port listed twice under a name with two commas gave one row,
\* next to the row of ATL.
C9_Witness ==
    /\ "cleaned_ports_df" \in built
    /\ Len(ports_df) = 3
    /\ ports_df[2] = PortRow(<<"P", "A,GA,">>)
    /\ Len(cleaned_ports_df) = 2
    /\ Range(cleaned_ports_df) =
           {[port_code |-> Str("ATL"), city |-> Str("ATLANTA"), state_code |-> Str("GA")],
            [port_code |-> Str("P"), city |-> Str("A"), state_code |-> Str("GA")]}

\* C9 as stated: the state code is the trimmed text after the first comma, up
\* to the end of the name.
C9_StateAfterFirstComma ==
    "cleaned_ports_df" \in built =>
        /\ NoEqualRows(cleaned_ports_df)
        /\ Range(cleaned_ports_df) =
               {CleanedPort(r, Len(r.port_name.s) + 1) : r \in PortsWithComma}

=============================================================================
